---------------------------- MODULE Spec2Model ----------------------------
(***************************************************************************)
(* A model of glycerine/pq: the time-ordered PriorityQueue of pq.go (a     *)
(* container/heap client whose entries carry their own heap index) and    *)
(* the FrameRingBuf of tfbuf.go (a fixed-size ring of frame pointers).    *)
(*                                                                         *)
(* Go slices are 0-based; TLA+ sequences are 1-based.  Every index in the  *)
(* model is the Go index and the element at Go index i of s is s[i + 1].   *)
(***************************************************************************)
EXTENDS Integers, Sequences, FiniteSets, TLC

\* ------------------------------------------------------------- bounds
\* Add is called at most MaxEnt times in a run (entries ever allocated).
MaxEnt == 3
\* Frames carry one of MaxKey + 1 timestamps.
MaxKey == 2
\* Distance in nanoseconds between two neighbouring test timestamps.
TmStep == 500000000
\* NewFrameRingBuf is called with a capacity in 0..MaxCap.
MaxCap == 3
\* Slices passed to the ring buffer (p, me) have a length in 0..MaxLen.
MaxLen == 2
\* A slice passed to Adopt has up to MaxExtra elements of capacity past its length.
MaxExtra == 1
\* The ring buffer is given NumFrames distinct frame pointers.
NumFrames == 2
\* A caller that fills pq.Seq itself puts up to MaxBulk entries there.
MaxBulk == 4

\* ---------------------------------------------------------- time.Time
\* Nanoseconds per second, the 1e9 of time.Unix.
NanosPerSec == 1000000000

\* Go's integer division truncates toward zero.
GoDiv(a, b) ==
    IF a >= 0 THEN a \div b ELSE -((-a) \div b)

\* time.Unix(sec, nsec): a Time normalised to 0 <= nsec < 1e9.
Unix(sec, nsec) ==
    IF nsec < 0 \/ nsec >= NanosPerSec
    THEN LET q  == GoDiv(nsec, NanosPerSec)
             s1 == sec + q
             n1 == nsec - q * NanosPerSec
         IN  IF n1 < 0
             THEN [sec |-> s1 - 1, nsec |-> n1 + NanosPerSec]
             ELSE [sec |-> s1, nsec |-> n1]
    ELSE [sec |-> sec, nsec |-> nsec]

\* Time.Before: t is strictly earlier than u.
Before(t, u) ==
    t.sec < u.sec \/ (t.sec = u.sec /\ t.nsec < u.nsec)

\* The frames a caller passes in: a frame is opaque but for its timestamp.
\* Timestamps start below zero so that time.Unix normalises some of them.
Frames == {[tm |-> (k - 1) * TmStep] : k \in 0..MaxKey}

\* Frame.Tm(): the frame's timestamp in nanoseconds.
Tm(frame) == frame.tm

\* ------------------------------------------------------------- state
VARIABLES
    pqSeq,     \* pq.Seq: the backing slice of *Pqe, as entry handles
    ent,       \* the Pqe objects ever allocated, by handle: Val, OrderBy, Idx
    pqOp,      \* the last PriorityQueue operation called
    pqArg,     \* the frame passed to it (Add, Update), else NoFrame
    pqRet,     \* the handle it was passed (Update) or returned, else 0
    pqStatus,  \* "ok", or "panic" once a call raised a run-time panic
    peeked,    \* after a Pop: what First returned if First was the call before, else 0
    drain,     \* handles returned by heap.Pop since the last Add or Update
    atStart    \* the handles resident when the last Add or Update returned

pqVars == <<pqSeq, ent, pqOp, pqArg, pqRet, pqStatus, peeked, drain, atStart>>

VARIABLES
    A,         \* b.A's array, every element up to cap(b.A)
    lenA,      \* len(b.A)
    N,         \* b.N
    Beg,       \* b.Beg
    Readable,  \* b.Readable
    rbOp,      \* the last FrameRingBuf operation called
    plen,      \* len(p) of that call (reads and writes), else 0
    retN,      \* the n it returned (reads and writes), else 0
    retErr,    \* the err it returned: "nil", "EOF" or "ErrShortWrite"
    out,       \* the caller's p after a read; <<>> after any other call
    first,     \* TwoContig's first result
    second,    \* TwoContig's second result
    rbStatus,  \* "ok", or "panic" once a call raised a run-time panic
    fifo,      \* the frames accepted and not yet consumed, oldest first
    afterReset \* Reset was called and no RingWriteFrames or Adopt since

rbVars == <<A, lenA, N, Beg, Readable, rbOp, plen, retN, retErr, out, first, second,
            rbStatus, fifo, afterReset>>

vars == <<pqVars, rbVars>>

NoFrame == [tm |-> -1]

\* The queue as a value the heap algorithms transform.
ThePq == [Seq |-> pqSeq, ent |-> ent]

\* ------------------------------------------------- heap.Interface of pq
\* PriorityQueue.Len
PqLen(h) == Len(h.Seq)

\* An index expression pq.Seq[i] panics outside 0 <= i < len(pq.Seq).
InRange(h, i) == 0 <= i /\ i < Len(h.Seq)

\* PriorityQueue.Less
Less(h, i, j) ==
    Before(h.ent[h.Seq[i + 1]].OrderBy, h.ent[h.Seq[j + 1]].OrderBy)

\* Swap that exchanges the slots and leaves both Idx fields stale.
SwapNoIdx(h, i, j) ==
    [h EXCEPT !.Seq = [h.Seq EXCEPT ![i + 1] = h.Seq[j + 1],
                                    ![j + 1] = h.Seq[i + 1]]]

\* PriorityQueue.Swap
Swap(h, i, j) ==
    LET s1 == [h.Seq EXCEPT ![i + 1] = h.Seq[j + 1],
                            ![j + 1] = h.Seq[i + 1]]
        e1 == [h.ent EXCEPT ![s1[i + 1]].Idx = i]
        e2 == [e1 EXCEPT ![s1[j + 1]].Idx = j]
    IN  [Seq |-> s1, ent |-> e2]

\* PriorityQueue.Pop: detach and return the last element.
PqPop(h) ==
    LET n    == Len(h.Seq)
        item == h.Seq[n]
    IN  [h    |-> [Seq |-> SubSeq(h.Seq, 1, n - 1),
                   ent |-> [h.ent EXCEPT ![item].Idx = -1]],
         item |-> item]

\* ------------------------------------------------------ container/heap
RECURSIVE up(_, _)
\* heap.up: sift the element at j toward the root.
up(h, j) ==
    LET i == GoDiv(j - 1, 2)
    IN  IF i = j \/ ~Less(h, j, i)
        THEN h
        ELSE up(Swap(h, i, j), i)

RECURSIVE downLoop(_, _, _)
\* The loop of heap.down: sift the element at i toward the leaves of h[0:n].
downLoop(h, i, n) ==
    LET j1 == 2 * i + 1
    IN  IF j1 >= n \/ j1 < 0
        THEN [h |-> h, i |-> i]
        ELSE LET j2 == j1 + 1
                 j  == IF j2 < n /\ Less(h, j2, j1) THEN j2 ELSE j1
             IN  IF ~Less(h, j, i)
                 THEN [h |-> h, i |-> i]
                 ELSE downLoop(Swap(h, i, j), j, n)

\* heap.down: the queue after sifting, and whether the element moved.
down(h, i0, n) ==
    LET r == downLoop(h, i0, n)
    IN  [h |-> r.h, moved |-> r.i > i0]

\* A Fix that only sifts up.
heapFixUpOnly(h, i) == up(h, i)

\* heap.Fix: re-establish the heap after the element at i changed.  With
\* i = -1 (a detached entry) down breaks on j1 < 0 and up on i = j: no call
\* of Less or Swap is made.
heapFix(h, i) ==
    LET d == down(h, i, PqLen(h))
    IN  IF ~d.moved THEN up(d.h, i) ELSE d.h

RECURSIVE initLoop(_, _, _)
\* The loop of heap.Init: down(h, i, n) for i = n/2 - 1 down to 0.
initLoop(h, i, n) ==
    IF i >= 0 THEN initLoop(down(h, i, n).h, i - 1, n) ELSE h

\* An Init that sifts the last element up and does nothing else.
heapInitUp(h) == up(h, PqLen(h) - 1)

\* heap.Init
heapInit(h) ==
    LET n == PqLen(h)
    IN  initLoop(h, GoDiv(n, 2) - 1, n)

\* heap.Pop panics in its Swap(0, n) when the queue is empty.
heapPopPanics(h) ==
    LET n == PqLen(h) - 1
    IN  ~(InRange(h, 0) /\ InRange(h, n))

\* A heap.Pop that detaches the last element without swapping the root there.
heapPopLast(h) == PqPop(h)

\* A heap.Pop that swaps the root out and does not sift the new root down.
heapPopNoDown(h) ==
    LET n == PqLen(h) - 1
    IN  PqPop(Swap(h, 0, n))

\* heap.Pop: Swap(0, n); down(0, n); then PriorityQueue.Pop.
heapPop(h) ==
    LET n == PqLen(h) - 1
    IN  PqPop(down(Swap(h, 0, n), 0, n).h)

\* ------------------------------------------------- PriorityQueue methods
\* NewPriorityQueue, and no call made yet.
InitPq ==
    /\ pqSeq = <<>>
    /\ ent = <<>>
    /\ pqOp = "New"
    /\ peeked = 0
    /\ pqArg = NoFrame
    /\ pqRet = 0
    /\ pqStatus = "ok"
    /\ drain = <<>>
    /\ atStart = {}

\* PriorityQueue.First panics on pq.Seq[0] when the queue is empty.
FirstPanics(h) == ~InRange(h, 0)

\* PriorityQueue.First: pq.Seq[0].
FirstOf(h) == h.Seq[1]

\* PriorityQueue.Add: the queue after the call and the handle returned.
AddTo(h, frame) ==
    LET pqe == [Val |-> frame, OrderBy |-> Unix(0, Tm(frame)), Idx |-> Len(h.Seq)]
        id  == Len(h.ent) + 1
        h1  == [Seq |-> Append(h.Seq, id), ent |-> Append(h.ent, pqe)]
    IN  [h |-> heapFix(h1, pqe.Idx), pqe |-> id]

\* Update that replaces the value and keeps the old OrderBy.
UpdateKeepKey(h, pqe, value) ==
    LET e1 == [h.ent EXCEPT ![pqe].Val = value]
    IN  heapFix([Seq |-> h.Seq, ent |-> e1], e1[pqe].Idx)

\* Update that returns early on a detached entry (Idx < 0).
UpdateSkipDetached(h, pqe, value) ==
    IF h.ent[pqe].Idx < 0
    THEN h
    ELSE LET e1 == [h.ent EXCEPT ![pqe].Val = value,
                                 ![pqe].OrderBy = Unix(0, Tm(value))]
         IN  heapFix([Seq |-> h.Seq, ent |-> e1], e1[pqe].Idx)

\* PriorityQueue.Update
UpdateIn(h, pqe, value) ==
    LET e1 == [h.ent EXCEPT ![pqe].Val = value,
                            ![pqe].OrderBy = Unix(0, Tm(value))]
    IN  heapFix([Seq |-> h.Seq, ent |-> e1], e1[pqe].Idx)

\* pq.Add(frame)
Add(frame) ==
    /\ pqStatus = "ok"
    /\ Len(ent) < MaxEnt
    /\ LET r == AddTo(ThePq, frame)
       IN  /\ pqSeq' = r.h.Seq
           /\ ent' = r.h.ent
           /\ pqRet' = r.pqe
           /\ atStart' = {r.h.Seq[i] : i \in 1..Len(r.h.Seq)}
    /\ pqOp' = "Add"
    /\ peeked' = 0
    /\ pqArg' = frame
    /\ pqStatus' = "ok"
    /\ drain' = <<>>
    /\ UNCHANGED rbVars

\* pq.Update(pqe, value), for any handle Add returned
Update(pqe, value) ==
    /\ pqStatus = "ok"
    /\ LET h == UpdateIn(ThePq, pqe, value)
       IN  /\ pqSeq' = h.Seq
           /\ ent' = h.ent
           /\ atStart' = {h.Seq[i] : i \in 1..Len(h.Seq)}
    /\ pqOp' = "Update"
    /\ peeked' = 0
    /\ pqArg' = value
    /\ pqRet' = pqe
    /\ pqStatus' = "ok"
    /\ drain' = <<>>
    /\ UNCHANGED rbVars

\* A heap.Pop that finds the queue empty and returns nil without panicking.
PopNilOnEmpty ==
    /\ pqStatus = "ok"
    /\ pqOp' = "Pop"
    /\ peeked' = IF pqOp = "First" THEN pqRet ELSE 0
    /\ pqArg' = NoFrame
    /\ pqStatus' = "ok"
    /\ IF PqLen(ThePq) = 0
       THEN /\ pqRet' = 0
            /\ UNCHANGED <<pqSeq, ent, drain>>
       ELSE LET r == heapPop(ThePq)
            IN  /\ pqSeq' = r.h.Seq
                /\ ent' = r.h.ent
                /\ pqRet' = r.item
                /\ drain' = Append(drain, r.item)
    /\ UNCHANGED atStart
    /\ UNCHANGED rbVars

\* heap.Pop(pq)
Pop ==
    /\ pqStatus = "ok"
    /\ pqOp' = "Pop"
    /\ peeked' = IF pqOp = "First" THEN pqRet ELSE 0
    /\ pqArg' = NoFrame
    /\ IF heapPopPanics(ThePq)
       THEN /\ pqStatus' = "panic"
            /\ pqRet' = 0
            /\ UNCHANGED <<pqSeq, ent, drain>>
       ELSE LET r == heapPop(ThePq)
            IN  /\ pqSeq' = r.h.Seq
                /\ ent' = r.h.ent
                /\ pqRet' = r.item
                /\ pqStatus' = "ok"
                /\ drain' = Append(drain, r.item)
    /\ UNCHANGED atStart
    /\ UNCHANGED rbVars

\* pq.First()
First ==
    /\ pqStatus = "ok"
    /\ pqOp' = "First"
    /\ peeked' = 0
    /\ pqArg' = NoFrame
    /\ IF FirstPanics(ThePq)
       THEN /\ pqStatus' = "panic"
            /\ pqRet' = 0
       ELSE /\ pqStatus' = "ok"
            /\ pqRet' = FirstOf(ThePq)
    /\ UNCHANGED <<pqSeq, ent, drain, atStart>>
    /\ UNCHANGED rbVars

\* pq.Reinit()
Reinit ==
    /\ pqStatus = "ok"
    /\ LET h == heapInit(ThePq)
       IN  /\ pqSeq' = h.Seq
           /\ ent' = h.ent
    /\ pqOp' = "Reinit"
    /\ peeked' = 0
    /\ pqArg' = NoFrame
    /\ pqRet' = 0
    /\ pqStatus' = "ok"
    /\ UNCHANGED <<drain, atStart>>
    /\ UNCHANGED rbVars

NextPq ==
    \/ \E frame \in Frames : Add(frame)
    \/ \E pqe \in 1..Len(ent), value \in Frames : Update(pqe, value)
    \/ Pop
    \/ First
    \/ Reinit


\* ------------------------------------------------------------ Go slices
\* The nil frame pointer, the zero value make() fills a slice with.
Nil == 0

\* The frame pointers a caller hands to the ring buffer.
RingFrames == 1..NumFrames

\* The slices of frame pointers of every length up to MaxLen.
RingSlices == UNION {[1..k -> RingFrames] : k \in 0..MaxLen}

\* A slice expression s[lo:hi] panics unless 0 <= lo <= hi <= cap(s); arr is
\* s's array up to cap(s).
SliceOk(arr, lo, hi) == 0 <= lo /\ lo <= hi /\ hi <= Len(arr)

\* s[lo:hi]
Slice(arr, lo, hi) == SubSeq(arr, lo + 1, hi)

\* intMin
intMin(a, b) == IF a < b THEN a ELSE b

\* copy(dst, src), where dst is arr[at:at+dstLen]: the array after the copy
\* and the number of elements copied.
GoCopy(arr, at, dstLen, src) ==
    LET k == intMin(dstLen, Len(src))
    IN  [arr |-> [i \in 1..Len(arr) |->
                    IF i > at /\ i <= at + k THEN src[i - at] ELSE arr[i]],
         k   |-> k]

\* ---------------------------------------------------------- FrameRingBuf
\* The ring buffer as a value its methods transform.
TheRing == [A |-> A, lenA |-> lenA, N |-> N, Beg |-> Beg, Readable |-> Readable]

\* NewFrameRingBuf(maxSize)
NewFrameRingBuf(maxSize) ==
    [A |-> [i \in 1..maxSize |-> Nil], lenA |-> maxSize, N |-> maxSize,
     Beg |-> 0, Readable |-> 0]

\* TwoContig panics when its first slice expression reaches past cap(b.A).
TwoContigPanics(b) ==
    LET extent == b.Beg + b.Readable
    IN  extent > b.N /\ ~SliceOk(b.A, b.Beg, b.Beg + b.Readable)

\* FrameRingBuf.TwoContig
TwoContig(b) ==
    LET extent == b.Beg + b.Readable
    IN  IF extent <= b.N
        THEN [first |-> Slice(b.A, b.Beg, b.Beg + b.Readable), second |-> <<>>]
        ELSE [first  |-> Slice(b.A, b.Beg, b.Beg + b.Readable),
              second |-> Slice(b.A, 0, extent % b.N)]

\* Advance panics on (b.Beg + n) % b.N when b.N is 0.
AdvancePanics(b, cnt) == cnt > 0 /\ b.N = 0

\* Advance that does not clamp n to b.Readable.
AdvanceNoClamp(b, cnt) ==
    IF cnt <= 0
    THEN b
    ELSE [b EXCEPT !.Readable = b.Readable - cnt,
                   !.Beg = (b.Beg + cnt) % b.N]

\* FrameRingBuf.Advance
Advance(b, cnt) ==
    IF cnt <= 0
    THEN b
    ELSE LET c == IF cnt > b.Readable THEN b.Readable ELSE cnt
         IN  [b EXCEPT !.Readable = b.Readable - c,
                       !.Beg = (b.Beg + c) % b.N]

\* A read that stops at the end of b.A and never copies the wrapped part.
readNoWrap(b, p, doAdvance) ==
    IF Len(p) = 0
    THEN [b |-> b, p |-> p, n |-> 0, err |-> "nil"]
    ELSE IF b.Readable = 0
    THEN [b |-> b, p |-> p, n |-> 0, err |-> "EOF"]
    ELSE LET extent == b.Beg + b.Readable
             c1 == GoCopy(p, 0, Len(p), Slice(b.A, b.Beg, intMin(extent, b.N)))
         IN  [b   |-> IF doAdvance THEN Advance(b, c1.k) ELSE b,
              p   |-> c1.arr,
              n   |-> c1.k,
              err |-> "nil"]

\* A read that tests b.Readable before len(p): io.EOF for an empty p on an
\* empty buffer.
readEofFirst(b, p, doAdvance) ==
    IF b.Readable = 0
    THEN [b |-> b, p |-> p, n |-> 0, err |-> "EOF"]
    ELSE IF Len(p) = 0
    THEN [b |-> b, p |-> p, n |-> 0, err |-> "nil"]
    ELSE LET extent == b.Beg + b.Readable
             c1 == IF extent <= b.N
                   THEN GoCopy(p, 0, Len(p), Slice(b.A, b.Beg, extent))
                   ELSE GoCopy(p, 0, Len(p), Slice(b.A, b.Beg, b.N))
             c2 == IF extent > b.N /\ c1.k < Len(p)
                   THEN GoCopy(c1.arr, c1.k, Len(p) - c1.k,
                               Slice(b.A, 0, extent % b.N))
                   ELSE [arr |-> c1.arr, k |-> 0]
             cnt == c1.k + c2.k
         IN  [b   |-> IF doAdvance THEN Advance(b, cnt) ELSE b,
              p   |-> c2.arr,
              n   |-> cnt,
              err |-> "nil"]

\* FrameRingBuf.readAndMaybeAdvance: the buffer and p after the call, n, err.
readAndMaybeAdvance(b, p, doAdvance) ==
    IF Len(p) = 0
    THEN [b |-> b, p |-> p, n |-> 0, err |-> "nil"]
    ELSE IF b.Readable = 0
    THEN [b |-> b, p |-> p, n |-> 0, err |-> "EOF"]
    ELSE LET extent == b.Beg + b.Readable
             c1 == IF extent <= b.N
                   THEN GoCopy(p, 0, Len(p), Slice(b.A, b.Beg, extent))
                   ELSE GoCopy(p, 0, Len(p), Slice(b.A, b.Beg, b.N))
             c2 == IF extent > b.N /\ c1.k < Len(p)
                   THEN GoCopy(c1.arr, c1.k, Len(p) - c1.k,
                               Slice(b.A, 0, extent % b.N))
                   ELSE [arr |-> c1.arr, k |-> 0]
             cnt == c1.k + c2.k
         IN  [b   |-> IF doAdvance THEN Advance(b, cnt) ELSE b,
              p   |-> c2.arr,
              n   |-> cnt,
              err |-> "nil"]

\* A write that returns after its first copy, without looping to fill from
\* b.A[0:...].
writeLoopOnce(b, p, cnt, e, iters) ==
    IF Len(p) = 0
    THEN [b |-> b, n |-> cnt, err |-> e, iters |-> iters]
    ELSE LET writeCapacity == b.N - b.Readable
         IN  IF writeCapacity <= 0
             THEN [b |-> b, n |-> cnt, err |-> "ErrShortWrite", iters |-> iters]
             ELSE LET writeStart == (b.Beg + b.Readable) % b.N
                      upperLim == intMin(writeStart + writeCapacity, b.N)
                      c == GoCopy(b.A, writeStart, upperLim - writeStart, p)
                  IN  [b     |-> [b EXCEPT !.A = c.arr,
                                           !.Readable = b.Readable + c.k],
                       n     |-> cnt + c.k,
                       err   |-> IF c.k < Len(p) THEN "ErrShortWrite" ELSE e,
                       iters |-> iters + 1]

RECURSIVE writeLoopFullNil(_, _, _, _, _)
\* A write that returns err as it stands, nil on entry, when it finds the
\* buffer full.
writeLoopFullNil(b, p, cnt, e, iters) ==
    IF Len(p) = 0
    THEN [b |-> b, n |-> cnt, err |-> e, iters |-> iters]
    ELSE LET writeCapacity == b.N - b.Readable
         IN  IF writeCapacity <= 0
             THEN [b |-> b, n |-> cnt, err |-> e, iters |-> iters]
             ELSE LET e1 == IF Len(p) > writeCapacity THEN "ErrShortWrite" ELSE e
                      writeStart == (b.Beg + b.Readable) % b.N
                      upperLim == intMin(writeStart + writeCapacity, b.N)
                      c == GoCopy(b.A, writeStart, upperLim - writeStart, p)
                  IN  writeLoopFullNil([b EXCEPT !.A = c.arr,
                                                 !.Readable = b.Readable + c.k],
                                       SubSeq(p, c.k + 1, Len(p)),
                                       cnt + c.k, e1, iters + 1)

RECURSIVE writeLoopOneSlot(_, _, _, _, _)
\* A write whose every iteration copies a single slot.
writeLoopOneSlot(b, p, cnt, e, iters) ==
    IF Len(p) = 0
    THEN [b |-> b, n |-> cnt, err |-> e, iters |-> iters]
    ELSE LET writeCapacity == b.N - b.Readable
         IN  IF writeCapacity <= 0
             THEN [b |-> b, n |-> cnt, err |-> "ErrShortWrite", iters |-> iters]
             ELSE LET e1 == IF Len(p) > writeCapacity THEN "ErrShortWrite" ELSE e
                      writeStart == (b.Beg + b.Readable) % b.N
                      upperLim == intMin(writeStart + 1, b.N)
                      c == GoCopy(b.A, writeStart, upperLim - writeStart, p)
                  IN  writeLoopOneSlot([b EXCEPT !.A = c.arr,
                                                 !.Readable = b.Readable + c.k],
                                       SubSeq(p, c.k + 1, Len(p)),
                                       cnt + c.k, e1, iters + 1)

RECURSIVE writeLoop(_, _, _, _, _)
\* The loop of RingWriteFrames: p is what is left to write, cnt and e are n
\* and err so far, iters the iterations that copied.
writeLoop(b, p, cnt, e, iters) ==
    IF Len(p) = 0
    THEN [b |-> b, n |-> cnt, err |-> e, iters |-> iters]
    ELSE LET writeCapacity == b.N - b.Readable
         IN  IF writeCapacity <= 0
             THEN [b |-> b, n |-> cnt, err |-> "ErrShortWrite", iters |-> iters]
             ELSE LET e1 == IF Len(p) > writeCapacity THEN "ErrShortWrite" ELSE e
                      writeStart == (b.Beg + b.Readable) % b.N
                      upperLim == intMin(writeStart + writeCapacity, b.N)
                      c == GoCopy(b.A, writeStart, upperLim - writeStart, p)
                  IN  writeLoop([b EXCEPT !.A = c.arr,
                                          !.Readable = b.Readable + c.k],
                                SubSeq(p, c.k + 1, Len(p)),
                                cnt + c.k, e1, iters + 1)

\* FrameRingBuf.RingWriteFrames
RingWriteFrames(b, p) == writeLoop(b, p, 0, "nil", 0)

\* A Reset that rewinds b.Beg and leaves b.Readable as it was.
ResetBegOnly(b) == [b EXCEPT !.Beg = 0]

\* FrameRingBuf.Reset
Reset(b) == [b EXCEPT !.Beg = 0, !.Readable = 0]

\* Adopt that takes the larger slice and leaves b.N as it was.
AdoptKeepN(b, me, extra) ==
    LET k == Len(me)
    IN  IF k > b.N
        THEN [b EXCEPT !.A = me \o extra, !.lenA = k, !.Beg = 0, !.Readable = k]
        ELSE [b EXCEPT !.A = GoCopy(b.A, 0, b.lenA, me).arr,
                       !.Beg = 0, !.Readable = k]

\* Adopt that copies into the existing array without rewinding b.Beg.
AdoptKeepBeg(b, me, extra) ==
    LET k == Len(me)
    IN  IF k > b.N
        THEN [A |-> me \o extra, lenA |-> k, N |-> k, Beg |-> 0, Readable |-> k]
        ELSE [b EXCEPT !.A = GoCopy(b.A, 0, b.lenA, me).arr,
                       !.Readable = k]

\* FrameRingBuf.Adopt: me has the elements extra between its length and its
\* capacity.
Adopt(b, me, extra) ==
    LET k == Len(me)
    IN  IF k > b.N
        THEN [A |-> me \o extra, lenA |-> k, N |-> k, Beg |-> 0, Readable |-> k]
        ELSE [b EXCEPT !.A = GoCopy(b.A, 0, b.lenA, me).arr,
                       !.Beg = 0, !.Readable = k]

\* ------------------------------------------- the abstract bounded queue
\* The first k elements of s, and s without them.
Take(s, k) == SubSeq(s, 1, k)
Drop(s, k) == SubSeq(s, k + 1, Len(s))

Max(a, b) == IF a > b THEN a ELSE b

\* ------------------------------------------------- ring buffer actions
InitRb(maxSize) ==
    /\ LET b == NewFrameRingBuf(maxSize)
       IN  /\ A = b.A
           /\ lenA = b.lenA
           /\ N = b.N
           /\ Beg = b.Beg
           /\ Readable = b.Readable
    /\ rbOp = "New"
    /\ plen = 0
    /\ retN = 0
    /\ retErr = "nil"
    /\ out = <<>>
    /\ first = <<>>
    /\ second = <<>>
    /\ rbStatus = "ok"
    /\ fifo = <<>>
    /\ afterReset = FALSE

\* The buffer's fields become those of b.
SetRing(b) ==
    /\ A' = b.A
    /\ lenA' = b.lenA
    /\ N' = b.N
    /\ Beg' = b.Beg
    /\ Readable' = b.Readable

\* A call that returns nothing.
NoResult ==
    /\ plen' = 0
    /\ retN' = 0
    /\ retErr' = "nil"
    /\ out' = <<>>
    /\ first' = <<>>
    /\ second' = <<>>

DoTwoContig ==
    /\ rbStatus = "ok"
    /\ rbOp' = "TwoContig"
    /\ plen' = 0
    /\ retN' = 0
    /\ retErr' = "nil"
    /\ out' = <<>>
    /\ IF TwoContigPanics(TheRing)
       THEN /\ rbStatus' = "panic"
            /\ first' = <<>>
            /\ second' = <<>>
       ELSE /\ rbStatus' = "ok"
            /\ first' = TwoContig(TheRing).first
            /\ second' = TwoContig(TheRing).second
    /\ UNCHANGED <<A, lenA, N, Beg, Readable, fifo, afterReset>>
    /\ UNCHANGED pqVars

\* A RingReadFrames that consumes the whole readable region, whatever len(p).
DoReadConsumeAll(k) ==
    /\ rbStatus = "ok"
    /\ LET r == readAndMaybeAdvance(TheRing, [i \in 1..k |-> Nil], FALSE)
       IN  /\ SetRing(Advance(r.b, IF r.n > 0 THEN r.b.Readable ELSE 0))
           /\ retN' = r.n
           /\ retErr' = r.err
           /\ out' = r.p
    /\ rbOp' = "RingReadFrames"
    /\ plen' = k
    /\ first' = <<>>
    /\ second' = <<>>
    /\ rbStatus' = "ok"
    /\ fifo' = Drop(fifo, intMin(k, Len(fifo)))
    /\ UNCHANGED afterReset
    /\ UNCHANGED pqVars

DoRingReadFrames(k) ==
    /\ rbStatus = "ok"
    /\ LET r == readAndMaybeAdvance(TheRing, [i \in 1..k |-> Nil], TRUE)
       IN  /\ SetRing(r.b)
           /\ retN' = r.n
           /\ retErr' = r.err
           /\ out' = r.p
    /\ rbOp' = "RingReadFrames"
    /\ plen' = k
    /\ first' = <<>>
    /\ second' = <<>>
    /\ rbStatus' = "ok"
    /\ fifo' = Drop(fifo, intMin(k, Len(fifo)))
    /\ UNCHANGED afterReset
    /\ UNCHANGED pqVars

\* A RingReadWithoutAdvance that advances past what it read.
DoPeekThatConsumes(k) ==
    /\ rbStatus = "ok"
    /\ LET r == readAndMaybeAdvance(TheRing, [i \in 1..k |-> Nil], TRUE)
       IN  /\ SetRing(r.b)
           /\ retN' = r.n
           /\ retErr' = r.err
           /\ out' = r.p
    /\ rbOp' = "RingReadWithoutAdvance"
    /\ plen' = k
    /\ first' = <<>>
    /\ second' = <<>>
    /\ rbStatus' = "ok"
    /\ UNCHANGED <<fifo, afterReset>>
    /\ UNCHANGED pqVars

DoRingReadWithoutAdvance(k) ==
    /\ rbStatus = "ok"
    /\ LET r == readAndMaybeAdvance(TheRing, [i \in 1..k |-> Nil], FALSE)
       IN  /\ SetRing(r.b)
           /\ retN' = r.n
           /\ retErr' = r.err
           /\ out' = r.p
    /\ rbOp' = "RingReadWithoutAdvance"
    /\ plen' = k
    /\ first' = <<>>
    /\ second' = <<>>
    /\ rbStatus' = "ok"
    /\ UNCHANGED <<fifo, afterReset>>
    /\ UNCHANGED pqVars

DoRingWriteFrames(p) ==
    /\ rbStatus = "ok"
    /\ LET r == RingWriteFrames(TheRing, p)
       IN  /\ SetRing(r.b)
           /\ retN' = r.n
           /\ retErr' = r.err
    /\ rbOp' = "RingWriteFrames"
    /\ plen' = Len(p)
    /\ out' = <<>>
    /\ first' = <<>>
    /\ second' = <<>>
    /\ rbStatus' = "ok"
    /\ fifo' = fifo \o Take(p, intMin(Len(p), N - Len(fifo)))
    /\ afterReset' = FALSE
    /\ UNCHANGED pqVars

DoReset ==
    /\ rbStatus = "ok"
    /\ SetRing(Reset(TheRing))
    /\ rbOp' = "Reset"
    /\ NoResult
    /\ rbStatus' = "ok"
    /\ fifo' = <<>>
    /\ afterReset' = TRUE
    /\ UNCHANGED pqVars

DoAdvance(cnt) ==
    /\ rbStatus = "ok"
    /\ rbOp' = "Advance"
    /\ NoResult
    /\ IF AdvancePanics(TheRing, cnt)
       THEN /\ rbStatus' = "panic"
            /\ UNCHANGED <<A, lenA, N, Beg, Readable, fifo>>
       ELSE /\ rbStatus' = "ok"
            /\ SetRing(Advance(TheRing, cnt))
            /\ fifo' = Drop(fifo, intMin(Max(cnt, 0), Len(fifo)))
    /\ UNCHANGED afterReset
    /\ UNCHANGED pqVars

DoAdopt(me, extra) ==
    /\ rbStatus = "ok"
    /\ SetRing(Adopt(TheRing, me, extra))
    /\ rbOp' = "Adopt"
    /\ NoResult
    /\ rbStatus' = "ok"
    /\ fifo' = me
    /\ afterReset' = FALSE
    /\ UNCHANGED pqVars

NextRb ==
    \/ DoTwoContig
    \/ \E k \in 0..MaxLen : DoRingReadFrames(k)
    \/ \E k \in 0..MaxLen : DoRingReadWithoutAdvance(k)
    \/ \E p \in RingSlices : DoRingWriteFrames(p)
    \/ DoReset
    \/ \E cnt \in -1..(MaxLen + 1) : DoAdvance(cnt)
    \/ \E me \in RingSlices, x \in 0..MaxExtra : DoAdopt(me, [i \in 1..x |-> Nil])

\* ------------------------------------------------------ specifications
\* The priority queue alone, beside an unused ring buffer.
InitPqOnly ==
    /\ InitPq
    /\ InitRb(0)

SpecPq == InitPqOnly /\ [][NextPq]_vars

\* The ring buffer alone, beside an unused priority queue.
InitRbOnly ==
    /\ InitPq
    /\ \E maxSize \in 0..MaxCap : InitRb(maxSize)

SpecRb == InitRbOnly /\ [][NextRb]_vars

\* A bulk load: the caller has filled the exported pq.Seq itself with entries
\* in any order of keys, each with Idx set to its index, and has made no
\* call yet.
InitBulk ==
    /\ \E k \in 0..MaxBulk : \E fs \in [1..k -> Frames] :
          /\ pqSeq = [i \in 1..k |-> i]
          /\ ent = [i \in 1..k |->
                      [Val |-> fs[i], OrderBy |-> Unix(0, Tm(fs[i])), Idx |-> i - 1]]
          /\ atStart = 1..k
    /\ pqOp = "New"
    /\ peeked = 0
    /\ pqArg = NoFrame
    /\ pqRet = 0
    /\ pqStatus = "ok"
    /\ drain = <<>>
    /\ InitRb(0)

\* What a caller does with a bulk-loaded queue: Reinit, and First and
\* heap.Pop before or after it.
NextBulk ==
    \/ Reinit
    \/ Pop
    \/ First

SpecBulk == InitBulk /\ [][NextBulk]_vars


\* ------------------------------------------- properties: priority queue
\* The handles resident in pq.Seq, and those heap.Pop returned since the
\* last Add or Update.
Resident == {pqSeq[i] : i \in 1..Len(pqSeq)}
Drained == {drain[i] : i \in 1..Len(drain)}

\* An entry's order key, and a Time as nanoseconds since the epoch.
KeyOf(e) == ent[e].OrderBy
Nanos(t) == t.sec * NanosPerSec + t.nsec

RECURSIVE DrainAll(_)
\* The handles in the order repeated heap.Pop returns them, until Len() is 0.
DrainAll(h) ==
    IF PqLen(h) = 0
    THEN <<>>
    ELSE LET r == heapPop(h) IN <<r.item>> \o DrainAll(r.h)

\* C1: while heap.Pop is called repeatedly after the last Add or Update, the
\* OrderBy keys of the popped entries are non-decreasing, no entry is popped
\* twice, and the popped entries together with the ones still resident are
\* exactly the entries resident when the popping started; so when Len() is 0
\* the popped entries are exactly those.
C1_DrainSortedComplete ==
    /\ \A i, j \in 1..Len(drain) :
          i < j => ~Before(KeyOf(drain[j]), KeyOf(drain[i]))
    /\ \A i, j \in 1..Len(drain) : i # j => drain[i] # drain[j]
    /\ Resident \cap Drained = {}
    /\ Resident \cup Drained = atStart
    /\ (Len(pqSeq) = 0 => Drained = atStart /\ Len(drain) = Cardinality(atStart))

\* Three entries with three different keys were popped until the queue was empty.
C1_Witness ==
    /\ pqOp = "Pop"
    /\ Len(pqSeq) = 0
    /\ Len(drain) = 3
    /\ Before(KeyOf(drain[1]), KeyOf(drain[2]))
    /\ Before(KeyOf(drain[2]), KeyOf(drain[3]))

\* C2: First on a non-empty queue returns a resident entry whose OrderBy is
\* not after that of any resident entry and changes nothing; a heap.Pop that
\* follows First directly returns the entry First returned, makes Len() one
\* less and leaves every other entry resident.
C2_PeekThenPop ==
    [][ /\ (pqOp' = "First" /\ pqSeq # <<>>) =>
              /\ pqStatus' = "ok"
              /\ pqRet' \in Resident
              /\ \A e \in Resident : ~Before(KeyOf(e), KeyOf(pqRet'))
              /\ pqSeq' = pqSeq
              /\ ent' = ent
        /\ (pqOp = "First" /\ pqStatus = "ok" /\ pqOp' = "Pop") =>
              /\ pqStatus' = "ok"
              /\ pqRet' = pqRet
              /\ Len(pqSeq') = Len(pqSeq) - 1
              /\ {pqSeq'[i] : i \in 1..Len(pqSeq')} = Resident \ {pqRet}
      ]_vars

\* heap.Pop directly after First returned the entry First returned, which had
\* a key earlier than another resident entry's.
C2_Witness ==
    /\ pqOp = "Pop"
    /\ peeked # 0
    /\ pqRet = peeked
    /\ Len(pqSeq) >= 1
    /\ \E e \in Resident : Before(KeyOf(pqRet), KeyOf(e))

\* C3: Update(E, r2) on a resident E makes E's Val r2 and E's OrderBy the
\* time of r2's timestamp k2, changes no other entry's value or key, keeps
\* the set of resident entries, and in the pop sequence that follows E comes
\* after no entry with a later key and before no entry with an earlier key:
\* E is popped at the rank of k2, whatever E's key was before.
C3_UpdateRepositions ==
    [][ (pqOp' = "Update" /\ pqRet' \in Resident) =>
          LET E    == pqRet'
              post == [Seq |-> pqSeq', ent |-> ent']
              d    == DrainAll(post)
              k2   == ent'[E].OrderBy
          IN  /\ ent'[E].Val = pqArg'
              /\ Nanos(k2) = Tm(pqArg')
              /\ k2.nsec \in 0..(NanosPerSec - 1)
              /\ Len(ent') = Len(ent)
              /\ \A e \in 1..Len(ent) :
                    e # E => /\ ent'[e].Val = ent[e].Val
                             /\ ent'[e].OrderBy = ent[e].OrderBy
              /\ Len(pqSeq') = Len(pqSeq)
              /\ {pqSeq'[i] : i \in 1..Len(pqSeq')} = Resident
              /\ \E at \in 1..Len(d) :
                    /\ d[at] = E
                    /\ \A i \in 1..Len(d) :
                          /\ i < at => ~Before(k2, ent'[d[i]].OrderBy)
                          /\ i > at => ~Before(ent'[d[i]].OrderBy, k2)
      ]_vars

\* Update gave a resident entry, among three, a key later than every other
\* entry's: the new maximum, away from the root.
C3_Witness ==
    /\ pqOp = "Update"
    /\ pqRet \in Resident
    /\ Len(pqSeq) = 3
    /\ ent[pqRet].Idx > 0
    /\ \A e \in Resident \ {pqRet} : Before(KeyOf(e), KeyOf(pqRet))

\* C4: after every Add, Update, heap.Pop and Reinit, pq.Seq is a min-heap:
\* no entry's OrderBy is after the OrderBy of a child at 2i+1 or 2i+2.
C4_MinHeap ==
    \A i \in 0..(Len(pqSeq) - 1) :
        \A c \in {2 * i + 1, 2 * i + 2} :
            c < Len(pqSeq) => ~Before(KeyOf(pqSeq[c + 1]), KeyOf(pqSeq[i + 1]))

\* Update left a heap of three entries whose root is earlier than both children.
C4_Witness ==
    /\ pqOp = "Update"
    /\ Len(pqSeq) = 3
    /\ Before(KeyOf(pqSeq[1]), KeyOf(pqSeq[2]))
    /\ Before(KeyOf(pqSeq[1]), KeyOf(pqSeq[3]))

\* C5: after every Add, Update and heap.Pop, the entry at index i of pq.Seq
\* has Idx = i, and every entry heap.Pop removed has Idx = -1.
C5_IdxTracksPosition ==
    /\ \A i \in 0..(Len(pqSeq) - 1) : ent[pqSeq[i + 1]].Idx = i
    /\ \A e \in 1..Len(ent) : e \notin Resident => ent[e].Idx = -1

\* heap.Pop removed an entry and left two resident.
C5_Witness ==
    /\ pqOp = "Pop"
    /\ pqStatus = "ok"
    /\ Len(pqSeq) = 2
    /\ ent[pqRet].Idx = -1

\* C6 as claimed: heap.Pop or First on an empty queue gives the caller an
\* EmptyQueue status, does not panic, and leaves the queue empty.
C6_EmptyReportsError ==
    (pqOp \in {"Pop", "First"} /\ pqRet = 0) =>
        (pqStatus = "EmptyQueue" /\ pqSeq = <<>>)

\* C6 as amended: heap.Pop or First on an empty queue raises a run-time
\* panic (index out of range) and returns nothing, having changed neither
\* the queue nor any entry; no call panics on a non-empty queue.
C6_EmptyPanics ==
    [][ /\ (pqOp' \in {"Pop", "First"} /\ pqSeq = <<>>) =>
              /\ pqStatus' = "panic"
              /\ pqRet' = 0
              /\ pqSeq' = <<>>
              /\ ent' = ent
        /\ pqStatus' = "panic" => (pqSeq = <<>> /\ pqOp' \in {"Pop", "First"})
      ]_vars

\* heap.Pop panicked on a queue that entries had been added to and popped from.
C6_Witness ==
    /\ pqOp = "Pop"
    /\ pqStatus = "panic"
    /\ Len(pqSeq) = 0
    /\ Len(ent) >= 1

\* C7 as claimed: Update with a handle already popped gives the caller a
\* StaleHandle status and leaves pq.Seq and every resident entry as they were.
C7_StaleHandleError ==
    [][ (pqOp' = "Update" /\ pqRet' \notin Resident) =>
          /\ pqStatus' = "StaleHandle"
          /\ pqSeq' = pqSeq
          /\ \A e \in Resident : ent'[e] = ent[e]
      ]_vars

\* C7 as amended: Update with a handle already popped reports nothing: it
\* returns normally, having overwritten the detached entry's Val and OrderBy
\* with the new record's; the entry's Idx stays -1, and pq.Seq and every
\* other entry (value, key, position) are unchanged.
C7_StaleUpdateSilent ==
    [][ (pqOp' = "Update" /\ pqRet' \notin Resident) =>
          LET E == pqRet'
          IN  /\ pqStatus' = "ok"
              /\ pqSeq' = pqSeq
              /\ Len(ent') = Len(ent)
              /\ \A e \in 1..Len(ent) : e # E => ent'[e] = ent[e]
              /\ ent'[E].Idx = -1
              /\ ent'[E].Val = pqArg'
              /\ Nanos(ent'[E].OrderBy) = Tm(pqArg')
      ]_vars

\* Update was called with a popped handle while another entry was resident.
C7_Witness ==
    /\ pqOp = "Update"
    /\ pqStatus = "ok"
    /\ pqRet \notin Resident
    /\ ent[pqRet].Idx = -1
    /\ ent[pqRet].Val = pqArg
    /\ Len(pqSeq) >= 1

\* --------------------------------------------- properties: ring buffer
\* The readable region A[Beg], A[(Beg+1) mod N], ..., Readable slots long.
Region ==
    [i \in 1..Readable |-> A[((Beg + i - 1) % N) + 1]]

\* C8: after every operation, 0 <= Readable <= N, 0 <= Beg < N when N > 0,
\* and N is the length of the backing slice A.
C8_RingBounds ==
    /\ 0 <= Readable
    /\ Readable <= N
    /\ (N > 0 => (0 <= Beg /\ Beg < N))
    /\ N = lenA

\* A write filled a buffer whose readable region wraps past the end of A.
C8_Witness ==
    /\ rbOp = "RingWriteFrames"
    /\ retN >= 1
    /\ Beg > 0
    /\ Readable = N
    /\ N = 3

\* C9: the ring buffer is a bounded FIFO queue of capacity N. The readable
\* region always equals the queue of frames accepted and not yet consumed;
\* RingWriteFrames accepts the first min(len(p), free) frames of p and
\* appends them; RingReadFrames copies the oldest min(len(p), Readable)
\* frames into p in order and removes exactly those; Advance removes the
\* oldest min(max(n, 0), Readable).
C9_BoundedFifo ==
    /\ [](Region = fifo /\ Len(fifo) <= N)
    /\ [][ /\ rbOp' = "RingWriteFrames" =>
                 /\ retN' = intMin(plen', N - Len(fifo))
                 /\ Len(fifo') = Len(fifo) + retN'
                 /\ Take(Region', Len(fifo)) = fifo
           /\ rbOp' = "RingReadFrames" =>
                 /\ retN' = intMin(plen', Len(fifo))
                 /\ Len(out') = plen'
                 /\ Take(out', retN') = Take(fifo, retN')
                 /\ Region' = Drop(fifo, retN')
           /\ (rbOp' = "Advance" /\ rbStatus' = "ok") =>
                 \E k \in 0..Len(fifo) : Region' = Drop(fifo, k)
         ]_vars

\* RingReadFrames read two different frames across the end of a backing
\* array of three slots: it started at Beg = 2 and left Beg = 1.
C9_Witness ==
    /\ rbOp = "RingReadFrames"
    /\ N = 3
    /\ retN = 2
    /\ Beg = 1
    /\ out[1] # out[2]

\* C10: TwoContig returns without failure; its two slices, concatenated, are
\* exactly the readable slots in write order; when the region wraps the
\* first covers [Beg, N) and the second [0, (Beg+Readable) mod N), and when
\* it does not the first is the whole region and the second is empty.
C10_TwoContigRoundTrip ==
    rbOp = "TwoContig" =>
        /\ rbStatus = "ok"
        /\ first \o second = fifo
        /\ IF Beg + Readable > N
           THEN /\ first = Slice(A, Beg, N)
                /\ second = Slice(A, 0, (Beg + Readable) % N)
           ELSE /\ first = Region
                /\ second = <<>>

\* The step leaves every field of the ring buffer as it was.
RingSame ==
    /\ A' = A
    /\ lenA' = lenA
    /\ N' = N
    /\ Beg' = Beg
    /\ Readable' = Readable

\* The caller's p of k slots before a read: nothing copied into it.
Blank(k) == [i \in 1..k |-> Nil]

\* C11: with free capacity c = N - Readable > 0, RingWriteFrames of r slots,
\* 0 < r <= c, returns n = r and a nil error; of r > c slots it writes
\* exactly c, returns n = c and io.ErrShortWrite and leaves Readable = N.
\* What was readable stays in place in front of what was written.  For every
\* call the error is non-nil exactly when n < len(p).
C11_ShortWriteBoundary ==
    [][ rbOp' = "RingWriteFrames" =>
          LET c == N - Readable
              r == plen'
          IN  /\ (c > 0 /\ 0 < r /\ r <= c) =>
                    /\ retN' = r
                    /\ retErr' = "nil"
              /\ (c > 0 /\ r > c) =>
                    /\ retN' = c
                    /\ retErr' = "ErrShortWrite"
                    /\ Readable' = N
              /\ Readable' = Readable + retN'
              /\ N' = N /\ Beg' = Beg /\ lenA' = lenA
              /\ Take(Region', Readable) = Region
              /\ (retErr' # "nil") <=> (retN' < plen')
      ]_vars

\* A write of one slot more than the free capacity filled a buffer of three
\* slots, into the slot before Beg, and returned io.ErrShortWrite.
C11_Witness ==
    /\ rbOp = "RingWriteFrames"
    /\ retErr = "ErrShortWrite"
    /\ N = 3
    /\ retN = 1
    /\ plen = retN + 1
    /\ Readable = N
    /\ Beg = 1

\* C12 as claimed: RingWriteFrames of a non-empty p into a full buffer
\* (Readable = N) writes nothing, returns n = 0, leaves the buffer as it was,
\* and reports a BufferFull status that is not the ShortWrite status of a
\* partial write.
C12_FullReportsBufferFull ==
    [][ (rbOp' = "RingWriteFrames" /\ plen' > 0 /\ Readable = N) =>
          /\ retN' = 0
          /\ RingSame
          /\ retErr' # "nil"
          /\ retErr' # "ErrShortWrite"
      ]_vars

\* C12 as amended: RingWriteFrames of a non-empty p into a full buffer writes
\* nothing, returns n = 0, leaves the buffer as it was, and returns
\* io.ErrShortWrite, the error a partial write returns: whenever n < len(p),
\* full or not, the error is io.ErrShortWrite.
C12_FullReportsShortWrite ==
    [][ rbOp' = "RingWriteFrames" =>
          /\ (plen' > 0 /\ Readable = N) =>
                /\ retN' = 0
                /\ RingSame
                /\ retErr' = "ErrShortWrite"
          /\ retN' < plen' => retErr' = "ErrShortWrite"
      ]_vars

\* A write of two slots into a full buffer of three returned 0 and
\* io.ErrShortWrite.
C12_Witness ==
    /\ rbOp = "RingWriteFrames"
    /\ plen = 2
    /\ retN = 0
    /\ retErr = "ErrShortWrite"
    /\ N = 3
    /\ Readable = N

\* C13: RingReadFrames and RingReadWithoutAdvance with an empty p return
\* (0, nil) and change nothing, whatever the buffer holds; with a non-empty p
\* and Readable = 0 they return (0, io.EOF), change nothing and copy nothing
\* into p; otherwise they return n = min(len(p), Readable) > 0 and nil, so
\* n < len(p) only when fewer than len(p) slots were readable.
C13_ReadStatus ==
    [][ rbOp' \in {"RingReadFrames", "RingReadWithoutAdvance"} =>
          /\ plen' = 0 =>
                /\ retN' = 0
                /\ retErr' = "nil"
                /\ out' = <<>>
                /\ RingSame
          /\ (plen' > 0 /\ Readable = 0) =>
                /\ retN' = 0
                /\ retErr' = "EOF"
                /\ out' = Blank(plen')
                /\ RingSame
          /\ (plen' > 0 /\ Readable > 0) =>
                /\ retN' = intMin(plen', Readable)
                /\ retN' > 0
                /\ retErr' = "nil"
          /\ retN' < plen' => Readable < plen'
      ]_vars

\* A read into a p of two slots found one slot readable: n = 1 and err nil.
C13_Witness ==
    /\ rbOp = "RingReadFrames"
    /\ plen = 2
    /\ retN = 1
    /\ retErr = "nil"
    /\ out[1] # Nil
    /\ out[2] = Nil
    /\ Readable = 0

\* The ring buffer after the step, as a value.
RingAfter == [A |-> A', lenA |-> lenA', N |-> N', Beg |-> Beg', Readable |-> Readable']

\* C14: from every reachable buffer state and for every len(p),
\* RingReadFrames(p) does what RingReadWithoutAdvance(p) followed by
\* Advance(n) does: the same data in p, the same n and err, and the same
\* Beg, Readable and backing array afterwards.  The first conjunct compares
\* each RingReadFrames call with the pair computed from the same state; the
\* second and third compare each RingReadWithoutAdvance call (which leaves
\* the buffer as it was) and the Advance(n) that follows it with
\* RingReadFrames computed from that state.
C14_ReadEqualsPeekAdvance ==
    [][ /\ rbOp' = "RingReadFrames" =>
              LET pk == readAndMaybeAdvance(TheRing, Blank(plen'), FALSE)
              IN  /\ retN' = pk.n
                  /\ retErr' = pk.err
                  /\ out' = pk.p
                  /\ RingAfter = Advance(pk.b, pk.n)
        /\ rbOp' = "RingReadWithoutAdvance" => RingSame
        /\ (rbOp = "RingReadWithoutAdvance" /\ rbOp' = "Advance"
                /\ DoAdvance(retN)) =>
              LET rd == readAndMaybeAdvance(TheRing, Blank(plen), TRUE)
              IN  /\ rbStatus' = "ok"
                  /\ retN = rd.n
                  /\ retErr = rd.err
                  /\ out = rd.p
                  /\ RingAfter = rd.b
      ]_vars

\* RingReadFrames with a p of one slot read the slot at the end of a backing
\* array of three and left a second one readable at index 0.
C14_Witness ==
    /\ rbOp = "RingReadFrames"
    /\ N = 3
    /\ plen = 1
    /\ retN = 1
    /\ Beg = 0
    /\ Readable = 1
    /\ out[1] # Nil
    /\ A[3] = out[1]

\* C15: RingReadWithoutAdvance leaves Beg, Readable, N and the backing array
\* as they were, so a second RingReadWithoutAdvance with a p of the same
\* length, called directly after the first, returns the same n, the same err
\* and the same data, wrapped regions included.
C15_IdempotentPeek ==
    [][ /\ rbOp' = "RingReadWithoutAdvance" => RingSame
        /\ (rbOp = "RingReadWithoutAdvance" /\ rbOp' = "RingReadWithoutAdvance"
                /\ plen' = plen) =>
              /\ retN' = retN
              /\ retErr' = retErr
              /\ out' = out
      ]_vars

\* RingReadWithoutAdvance copied two different frames from a region that
\* wraps past the end of a backing array of three, and the region is still
\* there.
C15_Witness ==
    /\ rbOp = "RingReadWithoutAdvance"
    /\ N = 3
    /\ Beg = 2
    /\ Readable >= 2
    /\ retN = 2
    /\ out[1] # out[2]
    /\ out = Take(Region, 2)

\* C16: Advance(n), for every capacity N >= 0, every reachable state and
\* every n, returns without failure, makes Readable smaller by exactly
\* min(max(n, 0), Readable), so never negative, moves Beg forward by as much
\* modulo N, and leaves the backing array as it was.
C16_AdvanceTotal ==
    [][ rbOp' = "Advance" =>
          \A cnt \in -1..(MaxLen + 1) :
              DoAdvance(cnt) =>
                  LET c == intMin(Max(cnt, 0), Readable)
                  IN  /\ rbStatus' = "ok"
                      /\ Readable' = Readable - c
                      /\ Readable' >= 0
                      /\ (N > 0 => Beg' = (Beg + c) % N)
                      /\ (N = 0 => Beg' = Beg)
                      /\ A' = A
                      /\ lenA' = lenA
                      /\ N' = N
      ]_vars

\* C17: Adopt(me) with len(me) > N makes me the backing array and sets
\* N = len(me), Beg = 0, Readable = len(me); with len(me) <= N it keeps the
\* backing array and N, copies me into the slots [0, len(me)), leaves the
\* slots after them as they were, and sets Beg = 0, Readable = len(me).  In
\* both cases what was readable before is gone: the readable region is me,
\* and a read of len(me) slots returns the elements of me in order.  (The
\* frames of me are those the queue holds after the call.)
C17_AdoptSizes ==
    /\ [][ rbOp' = "Adopt" =>
             LET me == fifo'
                 k  == Len(me)
             IN  /\ Beg' = 0
                 /\ Readable' = k
                 /\ \A i \in 1..k : A'[i] = me[i]
                 /\ IF k > N
                    THEN /\ N' = k
                         /\ lenA' = k
                    ELSE /\ N' = N
                         /\ lenA' = lenA
                         /\ Len(A') = Len(A)
                         /\ \A i \in (k + 1)..Len(A) : A'[i] = A[i]
         ]_vars
    /\ [](rbOp = "Adopt" =>
             LET rd == readAndMaybeAdvance(TheRing, Blank(Readable), TRUE)
             IN  /\ Region = fifo
                 /\ rd.n = Len(fifo)
                 /\ rd.p = fifo
                 /\ rd.b.Readable = 0)

\* Adopt copied a slice of one frame into a backing array of three whose
\* second slot still holds a frame written earlier.
C17_Witness ==
    /\ rbOp = "Adopt"
    /\ N = 3
    /\ lenA = 3
    /\ Beg = 0
    /\ Readable = 1
    /\ A[1] # Nil
    /\ A[2] # Nil
    /\ A[2] # A[1]

\* C18: Reset, from any state, makes Readable 0 and leaves N and the backing
\* array as they were; from then until the next RingWriteFrames or Adopt,
\* Readable stays 0 and every RingReadFrames and RingReadWithoutAdvance with
\* a non-empty p returns (0, io.EOF) and copies nothing into p, whatever the
\* backing array still holds.
C18_ResetThenRead ==
    /\ [](afterReset => Readable = 0)
    /\ [][ /\ rbOp' = "Reset" =>
                 /\ Readable' = 0
                 /\ N' = N
                 /\ A' = A
                 /\ lenA' = lenA
           /\ (afterReset' /\ plen' > 0
                   /\ rbOp' \in {"RingReadFrames", "RingReadWithoutAdvance"}) =>
                 /\ retN' = 0
                 /\ retErr' = "EOF"
                 /\ out' = Blank(plen')
                 /\ RingSame
         ]_vars

\* A read after Reset returned io.EOF from a buffer whose backing array
\* still holds two frames.
C18_Witness ==
    /\ rbOp = "RingReadFrames"
    /\ afterReset
    /\ plen = 2
    /\ retN = 0
    /\ retErr = "EOF"
    /\ N = 3
    /\ A[1] # Nil
    /\ A[2] # Nil

\* C19: in every reachable buffer state and for every p, the loop of
\* RingWriteFrames ends: it makes at most two iterations that copy, each
\* copying at least one slot: none when nothing can be written, one when
\* what is written fits before the end of the backing array, and two, the
\* second from index 0, when it does not.
C19_WriteLoopBounded ==
    \A p \in RingSlices :
        LET r          == RingWriteFrames(TheRing, p)
            written    == intMin(Len(p), N - Readable)
            writeStart == IF N > 0 THEN (Beg + Readable) % N ELSE 0
        IN  /\ r.iters <= 2
            /\ r.n >= r.iters
            /\ r.n = written
            /\ r.iters = IF written = 0 THEN 0
                         ELSE IF writeStart + written <= N THEN 1
                         ELSE 2

\* A write of two slots took two copies: the first into the last slot of a
\* backing array of three, the second into slot 0.
C19_Witness ==
    /\ rbOp = "RingWriteFrames"
    /\ N = 3
    /\ Beg = 1
    /\ Readable = 3
    /\ plen = 2
    /\ retN = 2
    /\ retErr = "nil"

\* ------------------------------------------------- properties: bulk load
\* seq, over the entries e, is a min-heap on OrderBy.
IsMinHeap(seq, e) ==
    \A i \in 0..(Len(seq) - 1) :
        \A c \in {2 * i + 1, 2 * i + 2} :
            c < Len(seq) => ~Before(e[seq[c + 1]].OrderBy, e[seq[i + 1]].OrderBy)

\* C20: Reinit on a pq.Seq holding the resident entries in any arrangement,
\* heap or not, with every entry's Idx equal to its index, makes pq.Seq a
\* min-heap, keeps Len() and the resident entries (each once, with its value
\* and key), and leaves Seq[i].Idx = i for every i; on a pq.Seq that is a
\* min-heap already it changes nothing.
C20_ReinitHeapifies ==
    [][ (pqOp' = "Reinit"
            /\ \A i \in 0..(Len(pqSeq) - 1) : ent[pqSeq[i + 1]].Idx = i) =>
          /\ pqStatus' = "ok"
          /\ IsMinHeap(pqSeq', ent')
          /\ Len(pqSeq') = Len(pqSeq)
          /\ {pqSeq'[i] : i \in 1..Len(pqSeq')} = Resident
          /\ \A i, j \in 1..Len(pqSeq') : i # j => pqSeq'[i] # pqSeq'[j]
          /\ Len(ent') = Len(ent)
          /\ \A e \in 1..Len(ent) :
                /\ ent'[e].Val = ent[e].Val
                /\ ent'[e].OrderBy = ent[e].OrderBy
          /\ \A i \in 0..(Len(pqSeq') - 1) : ent'[pqSeq'[i + 1]].Idx = i
          /\ IsMinHeap(pqSeq, ent) => (pqSeq' = pqSeq /\ ent' = ent)
      ]_vars

\* Reinit rearranged four bulk-loaded entries: the entry loaded last is at
\* the root, earlier than both its children, and the one loaded first is not.
C20_Witness ==
    /\ pqOp = "Reinit"
    /\ Len(pqSeq) = 4
    /\ pqSeq[1] = 4
    /\ Before(KeyOf(pqSeq[1]), KeyOf(pqSeq[2]))
    /\ Before(KeyOf(pqSeq[1]), KeyOf(pqSeq[3]))
    /\ ent[4].Idx = 0

=============================================================================
